---- MODULE Spec2Model ----
(***************************************************************************)
(* A model of the kvs log-structured key-value store (src/src/kv.rs) and   *)
(* of the request dispatcher that serves it (src/src/server.rs).           *)
(*                                                                         *)
(* The store directory is a function from segment ids to the sequence of   *)
(* records each <id>.log file holds.  A record is modelled by its command  *)
(* and its encoded byte length (RecLen), so that an extent (position,      *)
(* length) of a file resolves to a record only when it starts on a record  *)
(* boundary and has exactly that record's length, as serde_json's decoder  *)
(* requires.  Keys and values are strings; ByteLen gives the number of     *)
(* bytes the modelled string occupies, so that a value can stand for a     *)
(* payload of 1 MiB without the model holding a million characters.        *)
(***************************************************************************)
EXTENDS Integers, Sequences, FiniteSets, TLC

\* ------------------------------------------------------------------ bounds
MaxRecords == 3      \* records on disk plus buffered, above which set/remove are not issued
MaxSegId == 3        \* largest segment id an open may assign
MaxConns == 2        \* connections clients make to one server run
MaxReqs == 3         \* requests clients send to one server run, over all connections
MaxFaults == 1       \* I/O calls that fail in one run

\* --------------------------------------------------------------- constants
COMPACTION_THRESHOLD == 1024 * 1024

KeyOrder == <<"a", "b">>            \* the keys, in BTreeMap (lexicographic) order
Keys == {KeyOrder[i] : i \in 1..Len(KeyOrder)}
Values == {"s", "X"}
None == "None"                      \* Option::None

\* Bytes of the modelled strings: "X" is a value of 1 MiB.
ByteLen(str) == IF str = "X" THEN 1024 * 1024 ELSE 1

\* enum Command, as a value.
SetCmd(k, v) == [op |-> "Set", key |-> k, value |-> v]
RemoveCmd(k) == [op |-> "Remove", key |-> k, value |-> None]

\* Bytes of serde_json's encoding of a Command:
\*   {"Set":{"key":"<k>","value":"<v>"}}    29 + |k| + |v|
\*   {"Remove":{"key":"<k>"}}               21 + |k|
\* A run of n bytes that is not one whole record (the bytes an extent that is
\* off a record boundary covers) is kept as one opaque chunk.
BytesChunk(n) == [op |-> "Bytes", key |-> None, value |-> n]

RecLen(cmd) ==
    IF cmd.op = "Set" THEN 29 + ByteLen(cmd.key) + ByteLen(cmd.value)
    ELSE IF cmd.op = "Remove" THEN 21 + ByteLen(cmd.key)
    ELSE cmd.value

\* Result<T>: Ok(val) or Err(val).
Ok(v) == [ok |-> TRUE, val |-> v]
Err(e) == [ok |-> FALSE, val |-> e]
Unit == "()"

\* ------------------------------------------------------------------- state
VARIABLES
    segs,               \* the directory: segment id -> records of <id>.log
    opened,             \* TRUE while a KvStore value exists
    readers,            \* KvStore.readers: ids that have a reader
    wbuf,               \* KvStore.writer: records held in the BufWriter, not yet in the file
    map,                \* KvStore.map: key -> CommandMetadata
    current_index,      \* KvStore.current_index
    umcompacted_bytes,  \* KvStore.umcompacted_bytes
    last,               \* the last call made and what it returned
    hist,               \* history kept for the properties (not program state)
    srv,                \* the server: "down", "listening" (in accept) or "handling"
    incoming,           \* connections made and not yet accepted, each the requests its peer sends
    stream,             \* requests of the accepted connection not yet read
    out,                \* per accepted connection, the responses written to it
    slog,               \* per accepted connection, what was sent and decoded and how it ended
    lib_dir,            \* lib.rs: the directory of the single-log engine: file name -> records
    lib_store,          \* lib.rs: its KvStore: whether one exists, and its map (key -> value)
    lib_last            \* lib.rs: the last call made on it and what it returned

engine_vars == <<segs, opened, readers, wbuf, map, current_index, umcompacted_bytes>>
server_vars == <<srv, incoming, stream, out, slog>>
lib_vars == <<lib_dir, lib_store, lib_last>>
vars == <<segs, opened, readers, wbuf, map, current_index, umcompacted_bytes, last, hist,
          srv, incoming, stream, out, slog, lib_dir, lib_store, lib_last>>

\* ----------------------------------------------------------------- helpers
RECURSIVE SumLen(_)
SumLen(cmds) == IF cmds = <<>> THEN 0 ELSE RecLen(Head(cmds)) + SumLen(Tail(cmds))

\* Byte offset at which record i of a file starts.
Offset(cmds, i) == SumLen(SubSeq(cmds, 1, i - 1))

IsPrefix(p, q) == Len(p) <= Len(q) /\ SubSeq(q, 1, Len(p)) = p

Max(S) == CHOOSE x \in S : \A y \in S : y <= x

RECURSIVE SortedSeq(_)
SortedSeq(S) ==
    IF S = {} THEN <<>>
    ELSE LET m == CHOOSE x \in S : \A y \in S : x <= y
         IN <<m>> \o SortedSeq(S \ {m})

CommandMetadata(fi, pos, len) == [file_index |-> fi, position |-> pos, length |-> len]

EmptyMap == [x \in {} |-> 0]
Insert(m, k, md) == [x \in DOMAIN m \cup {k} |-> IF x = k THEN md ELSE m[x]]
Delete(m, k) == [x \in DOMAIN m \ {k} |-> m[x]]

\* The file contents the OS holds once the writer's buffer is flushed.
Flushed(fs, cur, buf) == [fs EXCEPT ![cur] = fs[cur] \o buf]

\* ------------------------------------------------------------------ replay
\* fetch_file_indexes: the ids of the <id>.log files, sorted ascending.
fetch_file_indexes(dir) == SortedSeq(DOMAIN dir)

\* As load_command, but an entry a Remove deletes is not counted.
load_command_ignores_remove(m, command, file_index, pos, next_pos) ==
    LET old == IF command.key \in DOMAIN m THEN m[command.key].length ELSE 0
    IN IF command.op = "Set"
       THEN [map |-> Insert(m, command.key, CommandMetadata(file_index, pos, next_pos - pos)),
             len |-> old]
       ELSE [map |-> Delete(m, command.key), len |-> 0]

\* load_command: apply one replayed command to the index; `len` is the length
\* of the entry it displaced (0 when it displaced none).
load_command(m, command, file_index, pos, next_pos) ==
    LET old == IF command.key \in DOMAIN m THEN m[command.key].length ELSE 0
    IN IF command.op = "Set"
       THEN [map |-> Insert(m, command.key, CommandMetadata(file_index, pos, next_pos - pos)),
             len |-> old]
       ELSE [map |-> Delete(m, command.key), len |-> old]

\* load_file: stream the records of one file from offset 0.  A chunk that is
\* no record fails the decode (command_result?).
RECURSIVE load_file(_, _, _, _, _, _)
load_file(file_index, cmds, i, pos, m, bytes) ==
    IF i > Len(cmds) THEN [ok |-> TRUE, map |-> m, bytes |-> bytes]
    ELSE IF cmds[i].op = "Bytes" THEN [ok |-> FALSE, map |-> m, bytes |-> bytes]
    ELSE LET next_pos == pos + RecLen(cmds[i])
             r == load_command(m, cmds[i], file_index, pos, next_pos)
         IN load_file(file_index, cmds, i + 1, next_pos, r.map, bytes + r.len)

RECURSIVE load_files(_, _, _, _, _)
RECURSIVE load_files_skips_last(_, _, _, _, _)

\* As load_files, but the file with the largest id is not replayed.
load_files_skips_last(dir, file_indexes, j, m, total) ==
    IF j >= Len(file_indexes) THEN [ok |-> TRUE, map |-> m, bytes |-> total]
    ELSE LET r == load_file(file_indexes[j], dir[file_indexes[j]], 1, 0, m, 0)
         IN IF ~r.ok THEN r
            ELSE load_files_skips_last(dir, file_indexes, j + 1, r.map, total + r.bytes)

\* load_files: replay every file in the order of file_indexes.
load_files(dir, file_indexes, j, m, total) ==
    IF j > Len(file_indexes) THEN [ok |-> TRUE, map |-> m, bytes |-> total]
    ELSE LET r == load_file(file_indexes[j], dir[file_indexes[j]], 1, 0, m, 0)
         IN IF ~r.ok THEN r
            ELSE load_files(dir, file_indexes, j + 1, r.map, total + r.bytes)

\* As new_index, but numbering by how many segments the directory holds.
new_index_by_count(file_indexes) == Len(file_indexes) + 1

\* The id open gives the new active segment.
new_index(file_indexes) ==
    (IF file_indexes = <<>> THEN 0 ELSE file_indexes[Len(file_indexes)]) + 1

\* read_command: seek to metadata.position, take metadata.length bytes and
\* decode exactly one Command from them.
read_command(cmds, metadata) ==
    LET hit == {i \in 1..Len(cmds) : /\ Offset(cmds, i) = metadata.position
                                     /\ RecLen(cmds[i]) = metadata.length
                                     /\ cmds[i].op # "Bytes"}
    IN IF hit = {} THEN Err("Serde") ELSE Ok(cmds[CHOOSE i \in hit : TRUE])

\* KvStore::get as a function of the engine state.
get(key) ==
    IF key \notin DOMAIN map THEN Ok(None)
    ELSE IF map[key].file_index \notin readers THEN Err("UnexpectedCommand")
    ELSE LET c == read_command(segs[map[key].file_index], map[key])
         IN IF ~c.ok THEN c
            ELSE IF c.val.op = "Set" THEN Ok(c.val.value)
            ELSE Err("UnexpectedCommand")

AllGets == [k \in Keys |-> get(k)]

\* The bytes std::io::copy moves for an extent: the record at it, or as many
\* bytes as the file has from `position` on, up to `length`.
copy_chunk(cmds, metadata) ==
    LET c == read_command(cmds, metadata)
        avail == SumLen(cmds) - metadata.position
        n == IF avail < metadata.length THEN avail ELSE metadata.length
    IN IF c.ok THEN <<c.val>>
       ELSE IF n <= 0 THEN <<>> ELSE <<BytesChunk(n)>>


\* Records the directory and the writer's buffer hold.
NumRecords ==
    LET RECURSIVE Count(_)
        Count(S) == IF S = {} THEN 0
                    ELSE LET x == CHOOSE y \in S : TRUE
                         IN Len(segs[x]) + Count(S \ {x})
    IN Count(DOMAIN segs) + Len(wbuf)

Call(op, key, value, res) == [op |-> op, key |-> key, value |-> value, res |-> res]

\* -------------------------------------------------------------- operations
\* KvStore::open: replay the directory, create <max + 1>.log and its reader.
open ==
    LET file_indexes == fetch_file_indexes(segs)
        r == load_files(segs, file_indexes, 1, EmptyMap, 0)
        ni == new_index(file_indexes)
    IN IF r.ok
       THEN /\ segs' = [x \in DOMAIN segs \cup {ni} |->
                           IF x \in DOMAIN segs THEN segs[x] ELSE <<>>]
            /\ opened' = TRUE
            /\ readers' = DOMAIN segs \cup {ni}
            /\ wbuf' = <<>>
            /\ map' = r.map
            /\ current_index' = ni
            /\ umcompacted_bytes' = r.bytes
            /\ last' = Call("open", None, None, Ok(Unit))
       ELSE /\ UNCHANGED engine_vars
            /\ last' = Call("open", None, None, Err("Serde"))

\* As close, but the records held in the BufWriter are lost.
close_without_flush ==
    /\ UNCHANGED segs
    /\ opened' = FALSE
    /\ readers' = {}
    /\ wbuf' = <<>>
    /\ map' = EmptyMap
    /\ current_index' = 0
    /\ umcompacted_bytes' = 0
    /\ last' = Call("close", None, None, Ok(Unit))

\* Dropping the KvStore: the BufWriter writes out what it holds.
close ==
    /\ segs' = Flushed(segs, current_index, wbuf)
    /\ opened' = FALSE
    /\ readers' = {}
    /\ wbuf' = <<>>
    /\ map' = EmptyMap
    /\ current_index' = 0
    /\ umcompacted_bytes' = 0
    /\ last' = Call("close", None, None, Ok(Unit))

\* As set, but the writer is not in append mode and writes from offset 0 of a
\* truncated file.
set_truncates(key, value) ==
    LET cmd == SetCmd(key, value)
    IN /\ segs' = [segs EXCEPT ![current_index] = <<cmd>>]
       /\ wbuf' = <<>>
       /\ map' = Insert(map, key, CommandMetadata(current_index, 0, RecLen(cmd)))
       /\ UNCHANGED <<opened, readers, current_index, umcompacted_bytes>>
       /\ last' = Call("set", key, value, Ok(Unit))

\* KvStore::set: seek to the end (which flushes the buffer), append the
\* record, flush, and point the index at the new extent.
set(key, value) ==
    LET disk == Flushed(segs, current_index, wbuf)
        pos == SumLen(disk[current_index])
        cmd == SetCmd(key, value)
        disk2 == [disk EXCEPT ![current_index] = Append(@, cmd)]
        new_pos == SumLen(disk2[current_index])
    IN /\ segs' = disk2
       /\ wbuf' = <<>>
       /\ map' = Insert(map, key, CommandMetadata(current_index, pos, new_pos - pos))
       /\ UNCHANGED <<opened, readers, current_index, umcompacted_bytes>>
       /\ last' = Call("set", key, value, Ok(Unit))

\* As remove, but the record is written before the index is consulted.
remove_writes_first(key) ==
    /\ wbuf' = Append(wbuf, RemoveCmd(key))
    /\ UNCHANGED <<segs, opened, readers, current_index, umcompacted_bytes>>
    /\ IF key \notin DOMAIN map
       THEN /\ UNCHANGED map
            /\ last' = Call("remove", key, None, Err("KeyNotFound"))
       ELSE /\ map' = Delete(map, key)
            /\ last' = Call("remove", key, None, Ok(Unit))

\* KvStore::remove: KeyNotFound when the index has no entry; otherwise drop
\* the entry and write the record into the BufWriter (no flush).
remove(key) ==
    IF key \notin DOMAIN map
    THEN /\ UNCHANGED engine_vars
         /\ last' = Call("remove", key, None, Err("KeyNotFound"))
    ELSE /\ map' = Delete(map, key)
         /\ wbuf' = Append(wbuf, RemoveCmd(key))
         /\ UNCHANGED <<segs, opened, readers, current_index, umcompacted_bytes>>
         /\ last' = Call("remove", key, None, Ok(Unit))

\* The loop of KvStore::compact over map.values_mut(), in key order: copy each
\* live extent into the writer and repoint its entry at writer_pos, which
\* starts at 0.  Stops with an error at an entry whose reader is missing.
RECURSIVE compact_loop(_, _, _, _)
RECURSIVE compact_loop_keeps_file_index(_, _, _, _)

\* As compact_loop, but an entry keeps the file_index it had.
compact_loop_keeps_file_index(i, m, pending, writer_pos) ==
    IF i > Len(KeyOrder) THEN [ok |-> TRUE, map |-> m, pending |-> pending]
    ELSE IF KeyOrder[i] \notin DOMAIN m
         THEN compact_loop_keeps_file_index(i + 1, m, pending, writer_pos)
    ELSE LET md == m[KeyOrder[i]]
         IN IF md.file_index \notin readers
            THEN [ok |-> FALSE, map |-> m, pending |-> pending]
            ELSE LET chunk == copy_chunk(segs[md.file_index], md)
                     len == SumLen(chunk)
                 IN compact_loop_keeps_file_index(i + 1,
                        [m EXCEPT ![KeyOrder[i]] = CommandMetadata(md.file_index, writer_pos, len)],
                        pending \o chunk, writer_pos + len)

compact_loop(i, m, pending, writer_pos) ==
    IF i > Len(KeyOrder) THEN [ok |-> TRUE, map |-> m, pending |-> pending]
    ELSE IF KeyOrder[i] \notin DOMAIN m THEN compact_loop(i + 1, m, pending, writer_pos)
    ELSE LET md == m[KeyOrder[i]]
         IN IF md.file_index \notin readers
            THEN [ok |-> FALSE, map |-> m, pending |-> pending]
            ELSE LET chunk == copy_chunk(segs[md.file_index], md)
                     len == SumLen(chunk)
                 IN compact_loop(i + 1,
                        [m EXCEPT ![KeyOrder[i]] = CommandMetadata(current_index, writer_pos, len)],
                        pending \o chunk, writer_pos + len)

\* As stale_log_indexes, but the segment before the active one is kept.
stale_log_indexes_keeps_previous == {id \in readers : id < current_index - 1}

\* The readers compact drops and whose files it unlinks.
stale_log_indexes == {id \in readers : id < current_index}

\* KvStore::compact.
compact ==
    IF umcompacted_bytes <= COMPACTION_THRESHOLD
    THEN /\ UNCHANGED engine_vars
         /\ last' = Call("compact", None, None, Ok(Unit))
    ELSE LET r == compact_loop(1, map, wbuf, 0)
             disk == Flushed(segs, current_index, r.pending)
         IN IF ~r.ok
            THEN /\ map' = r.map
                 /\ wbuf' = r.pending
                 /\ UNCHANGED <<segs, opened, readers, current_index, umcompacted_bytes>>
                 /\ last' = Call("compact", None, None, Err("UnexpectedCommand"))
            ELSE /\ map' = r.map
                 /\ wbuf' = <<>>
                 /\ readers' = readers \ stale_log_indexes
                 /\ segs' = [x \in DOMAIN disk \ stale_log_indexes |-> disk[x]]
                 /\ umcompacted_bytes' = 0
                 /\ UNCHANGED <<opened, current_index>>
                 /\ last' = Call("compact", None, None, Ok(Unit))

\* ----------------------------------------------------------------- history
\* kv            what the last set/remove on each key left (None: no value)
\* assigned      the ids open has given to new active segments, in order
\* dir_at_open   the ids the directory held when the last open started
\* compacted     a compaction has rewritten the log since the last open
\* overwritten   bytes of the index entries that set displaced since the last open
\* gets_at_close what get returned for each key just before the last close
\* quiet_close   the session that last closed ran no compaction
\* applied       the requests the server has applied to the engine, in order,
\*               each with the number of its connection
\* idle_close    the session that last closed made no set, remove or compaction
\*               that changed anything: its active segment was still empty
\* map_at_close  the index that session held when it closed (kept when idle_close)
\* faults        the I/O calls that have failed
HistInit ==
    [kv |-> [k \in Keys |-> None], assigned |-> <<>>, dir_at_open |-> {},
     compacted |-> FALSE, overwritten |-> 0,
     gets_at_close |-> [k \in Keys |-> Ok(None)], quiet_close |-> TRUE,
     applied |-> <<>>, idle_close |-> FALSE, map_at_close |-> EmptyMap,
     faults |-> 0]

\* Nothing was written since the open: no record in the active segment nor in
\* the buffer, and no compaction.
IdleSession == segs[current_index] = <<>> /\ wbuf = <<>> /\ ~hist.compacted

DisplacedLen(key) == IF key \in DOMAIN map THEN map[key].length ELSE 0

\* ----------------------------------------------------------------- actions
Init ==
    /\ segs = [x \in {} |-> <<>>]
    /\ opened = FALSE
    /\ readers = {}
    /\ wbuf = <<>>
    /\ map = EmptyMap
    /\ current_index = 0
    /\ umcompacted_bytes = 0
    /\ last = Call("none", None, None, Ok(Unit))
    /\ hist = HistInit
    /\ srv = "down"
    /\ incoming = <<>>
    /\ stream = <<>>
    /\ out = <<>>
    /\ slog = <<>>
    /\ lib_dir = [x \in {} |-> <<>>]
    /\ lib_store = [open |-> FALSE, map |-> EmptyMap]
    /\ lib_last = Call("none", None, None, Ok(Unit))

Open ==
    /\ ~opened
    /\ UNCHANGED <<server_vars, lib_vars>>
    /\ new_index(fetch_file_indexes(segs)) <= MaxSegId
    /\ open
    /\ hist' = [hist EXCEPT !.assigned = IF opened' THEN Append(@, current_index') ELSE @,
                            !.dir_at_open = DOMAIN segs,
                            !.compacted = FALSE,
                            !.overwritten = 0]

Close ==
    /\ opened
    /\ UNCHANGED <<server_vars, lib_vars>>
    /\ close
    /\ hist' = [hist EXCEPT !.gets_at_close = AllGets, !.quiet_close = ~hist.compacted,
                            !.idle_close = IdleSession,
                            !.map_at_close = IF IdleSession THEN map ELSE EmptyMap]

Set ==
    \E key \in Keys, value \in Values :
        /\ opened
        /\ NumRecords < MaxRecords
        /\ UNCHANGED <<server_vars, lib_vars>>
        /\ set(key, value)
        /\ hist' = [hist EXCEPT !.kv[key] = value,
                                !.overwritten = @ + DisplacedLen(key)]

Get ==
    \E key \in Keys :
        /\ opened
        /\ last' = Call("get", key, None, get(key))
        /\ UNCHANGED <<engine_vars, hist, server_vars, lib_vars>>

Remove ==
    \E key \in Keys :
        /\ opened
        /\ NumRecords < MaxRecords
        /\ UNCHANGED <<server_vars, lib_vars>>
        /\ remove(key)
        /\ hist' = [hist EXCEPT !.kv[key] = None]

Compact ==
    /\ opened
    /\ UNCHANGED <<server_vars, lib_vars>>
    /\ compact
    /\ hist' = [hist EXCEPT !.compacted = @ \/ umcompacted_bytes > COMPACTION_THRESHOLD]

Next == Open \/ Close \/ Set \/ Get \/ Remove \/ Compact

Spec == Init /\ [][Next]_vars

\* ------------------------------------------------------------- I/O failures
\* The calls of set, remove and compact that can return an error through `?`:
\* an io::Error becomes KvsError::Io, and a serde_json::Error (which to_writer
\* returns also when the writer fails) KvsError::Serde.  A record counts as in
\* the file once all its bytes are; wbuf holds the records the BufWriter has
\* not wholly written out.
IoError == Err("Io")
SerdeError == Err("Serde")

\* KvStore::set when one of its four I/O calls fails: the first seek (which
\* writes out the buffer), the write of the record, the flush, or the second
\* seek.  Every one returns before map.insert.
set_fails(key, value, step) ==
    LET disk == Flushed(segs, current_index, wbuf)
        cmd == SetCmd(key, value)
    IN /\ IF step = "seek" THEN UNCHANGED <<segs, wbuf>>
          ELSE IF step = "write" THEN segs' = disk /\ wbuf' = <<>>
          ELSE IF step = "flush" THEN segs' = disk /\ wbuf' = <<cmd>>
          ELSE /\ segs' = [disk EXCEPT ![current_index] = Append(@, cmd)]
               /\ wbuf' = <<>>
       /\ UNCHANGED <<opened, readers, map, current_index, umcompacted_bytes>>
       /\ last' = Call("set", key, value, IF step = "write" THEN SerdeError ELSE IoError)

\* KvStore::remove when the write of the record fails: the entry has already
\* been taken out of the index.
remove_fails(key) ==
    /\ key \in DOMAIN map
    /\ map' = Delete(map, key)
    /\ UNCHANGED <<segs, opened, readers, wbuf, current_index, umcompacted_bytes>>
    /\ last' = Call("remove", key, None, SerdeError)

\* The index after the loop of compact has handled the live keys before
\* KeyOrder[f], and the bytes it has given the writer.
compact_loop_before(f) ==
    LET before == {KeyOrder[i] : i \in 1..(f - 1)} \cap DOMAIN map
        r == compact_loop(1, [k \in before |-> map[k]], wbuf, 0)
    IN [ok |-> r.ok,
        map |-> [k \in DOMAIN map |-> IF k \in before THEN r.map[k] ELSE map[k]],
        pending |-> r.pending]

\* KvStore::compact when an I/O call fails: the seek or copy of the entry of
\* KeyOrder[f] ("copy"), the flush ("flush"), or remove_file of the stale
\* segment f after those of `done` were removed ("unlink"; readers.keys() is
\* in no particular order).  The reader of f is dropped before remove_file.
compact_fails(step, f, done) ==
    /\ umcompacted_bytes > COMPACTION_THRESHOLD
    /\ last' = Call("compact", None, None, IoError)
    /\ UNCHANGED <<opened, current_index, umcompacted_bytes>>
    /\ IF step = "copy"
       THEN LET r == compact_loop_before(f)
            IN /\ KeyOrder[f] \in DOMAIN map /\ r.ok
               /\ map' = r.map
               /\ wbuf' = r.pending
               /\ UNCHANGED <<segs, readers>>
       ELSE LET r == compact_loop(1, map, wbuf, 0)
                disk == Flushed(segs, current_index, r.pending)
            IN /\ r.ok
               /\ map' = r.map
               /\ IF step = "flush"
                  THEN /\ wbuf' = r.pending
                       /\ UNCHANGED <<segs, readers>>
                  ELSE /\ f \in stale_log_indexes /\ done \subseteq stale_log_indexes \ {f}
                       /\ wbuf' = <<>>
                       /\ readers' = readers \ (done \cup {f})
                       /\ segs' = [x \in DOMAIN disk \ done |-> disk[x]]

SetFails ==
    \E key \in Keys, value \in Values, step \in {"seek", "write", "flush", "seek2"} :
        /\ opened
        /\ NumRecords < MaxRecords /\ hist.faults < MaxFaults
        /\ set_fails(key, value, step)
        /\ hist' = [hist EXCEPT !.faults = @ + 1]
        /\ UNCHANGED <<server_vars, lib_vars>>

RemoveFails ==
    \E key \in Keys :
        /\ opened
        /\ hist.faults < MaxFaults
        /\ remove_fails(key)
        /\ hist' = [hist EXCEPT !.faults = @ + 1]
        /\ UNCHANGED <<server_vars, lib_vars>>

CompactFails ==
    \E step \in {"copy", "flush", "unlink"}, f \in 1..MaxSegId, done \in SUBSET (1..MaxSegId) :
        /\ opened
        /\ NumRecords <= MaxRecords /\ hist.faults < MaxFaults
        /\ step = "copy" => f <= Len(KeyOrder) /\ done = {}
        /\ step = "flush" => f = 1 /\ done = {}
        /\ compact_fails(step, f, done)
        /\ hist' = [hist EXCEPT !.compacted = TRUE, !.faults = @ + 1]
        /\ UNCHANGED <<server_vars, lib_vars>>

\* The engine with I/O failures; get is left out, as it changes nothing of the
\* store.
FaultNext ==
    Open \/ Close \/ Set \/ Remove \/ Compact \/ SetFails \/ RemoveFails \/ CompactFails

FaultSpec == Init /\ [][FaultNext]_vars

\* ------------------------------------------------- the single-log engine
\* lib.rs: a KvStore that keeps key -> value in a HashMap and appends every
\* command to one file, log_file.log, through an unbuffered File.
LogFile == "log_file.log"

\* The loop of load: apply the commands of the log to the map, in order; a
\* chunk that is no command fails the decode (command?).
RECURSIVE load_commands(_, _)
load_commands(cmds, m) ==
    IF cmds = <<>> THEN [ok |-> TRUE, map |-> m]
    ELSE IF Head(cmds).op = "Bytes" THEN [ok |-> FALSE, map |-> m]
    ELSE IF Head(cmds).op = "Set"
         THEN load_commands(Tail(cmds), Insert(m, Head(cmds).key, Head(cmds).value))
    ELSE load_commands(Tail(cmds), Delete(m, Head(cmds).key))

\* As load, but the Remove commands of the log are not applied.
load_ignores_remove(log) ==
    load_commands(SelectSeq(log, LAMBDA c : c.op # "Remove"), EmptyMap)

\* load: the map a log replays to.
load(log) == load_commands(log, EmptyMap)

\* lib.rs KvStore::open: load log_file.log when it can be opened, else start
\* from an empty map; then create the file if it is not there.
lib_open ==
    LET r == IF LogFile \in DOMAIN lib_dir THEN load(lib_dir[LogFile])
             ELSE [ok |-> TRUE, map |-> EmptyMap]
    IN IF r.ok
       THEN /\ lib_dir' = [x \in DOMAIN lib_dir \cup {LogFile} |->
                              IF x \in DOMAIN lib_dir THEN lib_dir[x] ELSE <<>>]
            /\ lib_store' = [open |-> TRUE, map |-> r.map]
            /\ lib_last' = Call("open", None, None, Ok(Unit))
       ELSE /\ UNCHANGED <<lib_dir, lib_store>>
            /\ lib_last' = Call("open", None, None, SerdeError)

\* Dropping the lib.rs KvStore: the File is closed, nothing is buffered.
lib_close ==
    /\ lib_store' = [open |-> FALSE, map |-> EmptyMap]
    /\ UNCHANGED lib_dir
    /\ lib_last' = Call("close", None, None, Ok(Unit))

\* lib.rs KvStore::set: append the command, then insert into the map.
lib_set(key, value) ==
    /\ lib_dir' = [lib_dir EXCEPT ![LogFile] = Append(@, SetCmd(key, value))]
    /\ lib_store' = [lib_store EXCEPT !.map = Insert(@, key, value)]
    /\ lib_last' = Call("set", key, value, Ok(Unit))

\* lib.rs KvStore::get: map.get(&key).cloned().
lib_get(key) == Ok(IF key \in DOMAIN lib_store.map THEN lib_store.map[key] ELSE None)

\* lib.rs KvStore::remove: KeyNotFound when the map has no entry; otherwise
\* drop the entry and append the command.
lib_remove(key) ==
    IF key \in DOMAIN lib_store.map
    THEN /\ lib_store' = [lib_store EXCEPT !.map = Delete(@, key)]
         /\ lib_dir' = [lib_dir EXCEPT ![LogFile] = Append(@, RemoveCmd(key))]
         /\ lib_last' = Call("remove", key, None, Ok(Unit))
    ELSE /\ UNCHANGED <<lib_dir, lib_store>>
         /\ lib_last' = Call("remove", key, None, Err("KeyNotFound"))

\* The same call made on both engines, each on a directory of its own.
BothOpen ==
    /\ ~opened /\ ~lib_store.open
    /\ new_index(fetch_file_indexes(segs)) <= MaxSegId
    /\ open
    /\ lib_open
    /\ hist' = [hist EXCEPT !.assigned = IF opened' THEN Append(@, current_index') ELSE @,
                            !.dir_at_open = DOMAIN segs,
                            !.compacted = FALSE,
                            !.overwritten = 0]
    /\ UNCHANGED server_vars

BothClose ==
    /\ opened /\ lib_store.open
    /\ close
    /\ lib_close
    /\ hist' = [hist EXCEPT !.gets_at_close = AllGets, !.quiet_close = ~hist.compacted,
                            !.idle_close = IdleSession,
                            !.map_at_close = IF IdleSession THEN map ELSE EmptyMap]
    /\ UNCHANGED server_vars

BothSet ==
    \E key \in Keys, value \in Values :
        /\ opened /\ lib_store.open
        /\ NumRecords < MaxRecords
        /\ set(key, value)
        /\ lib_set(key, value)
        /\ hist' = [hist EXCEPT !.kv[key] = value,
                                !.overwritten = @ + DisplacedLen(key)]
        /\ UNCHANGED server_vars

BothGet ==
    \E key \in Keys :
        /\ opened /\ lib_store.open
        /\ last' = Call("get", key, None, get(key))
        /\ lib_last' = Call("get", key, None, lib_get(key))
        /\ UNCHANGED <<engine_vars, hist, server_vars, lib_dir, lib_store>>

BothRemove ==
    \E key \in Keys :
        /\ opened /\ lib_store.open
        /\ NumRecords < MaxRecords
        /\ remove(key)
        /\ lib_remove(key)
        /\ hist' = [hist EXCEPT !.kv[key] = None]
        /\ UNCHANGED server_vars

EquivNext == BothOpen \/ BothClose \/ BothSet \/ BothGet \/ BothRemove

EquivSpec == Init /\ [][EquivNext]_vars

\* ------------------------------------------------------------------ server
\* Protocol: the requests of the wire protocol; "Garbage" stands for bytes
\* that do not decode to a Protocol value.
GetReq(k) == [kind |-> "Get", key |-> k, value |-> None]
SetReq(k, v) == [kind |-> "Set", key |-> k, value |-> v]
RemoveReq(k) == [kind |-> "Remove", key |-> k, value |-> None]
Garbage == [kind |-> "Garbage", key |-> None, value |-> None]
Requests ==
    {GetReq(k) : k \in Keys} \cup {SetReq(k, v) : k \in Keys, v \in Values}
        \cup {RemoveReq(k) : k \in Keys} \cup {Garbage}

\* GetResponse / SetResponse / RemoveResponse: Ok(payload) or Err(message).
Response(kind, ok, val) == [kind |-> kind, ok |-> ok, val |-> val]

\* KvsError's Display (format!("{}", e)).
Display(e) ==
    IF e = "KeyNotFound" THEN "Key not found error"
    ELSE IF e = "UnexpectedCommand" THEN "UnexpectedCommand error"
    ELSE "serde_json error"

\* As response_for, but a Get of an absent key is answered as an error.
response_for_absent_is_error(req, res) ==
    IF req.kind = "Get" /\ res = Ok(None)
    THEN Response("GetResponse", FALSE, Display("KeyNotFound"))
    ELSE Response(req.kind \o "Response", res.ok, IF res.ok THEN res.val ELSE Display(res.val))

\* The response handle_connection builds from the engine's result.
response_for(req, res) ==
    Response(req.kind \o "Response", res.ok, IF res.ok THEN res.val ELSE Display(res.val))

\* The call handle_connection makes on the engine for one request.
engine_call(req) ==
    IF req.kind = "Get"
    THEN /\ last' = Call("get", req.key, None, get(req.key))
         /\ UNCHANGED engine_vars
    ELSE IF req.kind = "Set" THEN set(req.key, req.value)
    ELSE remove(req.key)

\* Number of the connection being handled (the last one accepted).
conn == Len(out)

HistAfter(req) ==
    LET h == [hist EXCEPT !.applied = Append(@, [conn |-> conn, req |-> req])]
    IN IF req.kind = "Set" THEN [h EXCEPT !.kv[req.key] = req.value,
                                          !.overwritten = @ + DisplacedLen(req.key)]
       ELSE IF req.kind = "Remove" THEN [h EXCEPT !.kv[req.key] = None]
       ELSE h

\* What is kept of a decoded request: the request, the engine's result, and
\* the value the last set/remove before it left for its key.
Decoded(req, res) == [req |-> req, res |-> res, held |-> hist.kv[req.key]]

\* As handle_connection, but an engine error is propagated with `?`: nothing
\* is written for the request and the connection ends.
handle_connection_error_ends ==
    LET req == Head(stream)
    IN /\ engine_call(req)
       /\ hist' = HistAfter(req)
       /\ UNCHANGED incoming
       /\ IF last'.res.ok
          THEN /\ out' = [out EXCEPT ![conn] = Append(@, response_for(req, last'.res))]
               /\ stream' = Tail(stream)
               /\ slog' = [slog EXCEPT ![conn].decoded = Append(@, Decoded(req, last'.res))]
               /\ UNCHANGED srv
          ELSE /\ UNCHANGED out
               /\ stream' = <<>>
               /\ slog' = [slog EXCEPT ![conn].decoded = Append(@, Decoded(req, last'.res)),
                                       ![conn].ended = "error"]
               /\ srv' = "listening"

\* One turn of the loop of handle_connection on a request that decodes: call
\* the engine, write the response and flush it.
handle_connection ==
    LET req == Head(stream)
    IN /\ engine_call(req)
       /\ hist' = HistAfter(req)
       /\ out' = [out EXCEPT ![conn] = Append(@, response_for(req, last'.res))]
       /\ stream' = Tail(stream)
       /\ slog' = [slog EXCEPT ![conn].decoded = Append(@, Decoded(req, last'.res))]
       /\ UNCHANGED <<srv, incoming>>

\* The sequences of at most n requests.
RECURSIVE ReqSeqs(_)
ReqSeqs(n) ==
    IF n = 0 THEN {<<>>}
    ELSE LET shorter == ReqSeqs(n - 1)
         IN shorter \cup {Append(q, r) : q \in shorter, r \in Requests}

RECURSIVE SumOfLens(_)
SumOfLens(qs) == IF qs = <<>> THEN 0 ELSE Len(Head(qs)) + SumOfLens(Tail(qs))

\* Requests sent so far, on the connections accepted and on those waiting.
RequestsSent ==
    SumOfLens([i \in 1..Len(slog) |-> slog[i].sent]) + SumOfLens(incoming)

\* kvs-server's run: open the store in the current directory, then listen.
ServerStart ==
    /\ srv = "down" /\ ~opened
    /\ open
    /\ srv' = IF opened' THEN "listening" ELSE "down"
    /\ hist' = [hist EXCEPT !.assigned = IF opened' THEN Append(@, current_index') ELSE @,
                            !.dir_at_open = DOMAIN segs]
    /\ UNCHANGED <<incoming, stream, out, slog, lib_vars>>

\* A client connects and sends its requests, then closes its end.
Connect ==
    \E reqs \in ReqSeqs(MaxReqs - RequestsSent) :
        /\ srv # "down"
        /\ Len(slog) + Len(incoming) < MaxConns
        /\ incoming' = Append(incoming, reqs)
        /\ UNCHANGED <<engine_vars, last, hist, srv, stream, out, slog, lib_vars>>

\* As Accept, but a waiting connection is taken up while the previous one is
\* still being handled.
AcceptWithoutWaiting ==
    /\ srv \in {"listening", "handling"} /\ incoming # <<>>
    /\ srv' = "handling"
    /\ stream' = Head(incoming)
    /\ incoming' = Tail(incoming)
    /\ out' = Append(out, <<>>)
    /\ slog' = Append(slog, [sent |-> Head(incoming), decoded |-> <<>>, ended |-> "no"])
    /\ UNCHANGED <<engine_vars, last, hist, lib_vars>>

\* KvsServer::run: take the next connection from listener.incoming().
Accept ==
    /\ srv = "listening" /\ incoming # <<>>
    /\ srv' = "handling"
    /\ stream' = Head(incoming)
    /\ incoming' = Tail(incoming)
    /\ out' = Append(out, <<>>)
    /\ slog' = Append(slog, [sent |-> Head(incoming), decoded |-> <<>>, ended |-> "no"])
    /\ UNCHANGED <<engine_vars, last, hist, lib_vars>>

HandleRequest ==
    /\ srv = "handling" /\ stream # <<>> /\ Head(stream).kind # "Garbage"
    /\ handle_connection
    /\ UNCHANGED lib_vars

\* As DecodeError, but the undecodable request is skipped and the loop goes on.
DecodeErrorSkipsRequest ==
    /\ srv = "handling" /\ stream # <<>> /\ Head(stream).kind = "Garbage"
    /\ stream' = Tail(stream)
    /\ UNCHANGED <<engine_vars, last, hist, srv, incoming, out, slog, lib_vars>>

\* `let command = command?;` on bytes that do not decode: handle_connection
\* returns the error, run logs it and goes on to the next connection.
DecodeError ==
    /\ srv = "handling" /\ stream # <<>> /\ Head(stream).kind = "Garbage"
    /\ srv' = "listening"
    /\ stream' = <<>>
    /\ slog' = [slog EXCEPT ![conn].ended = "decode"]
    /\ UNCHANGED <<engine_vars, last, hist, incoming, out, lib_vars>>

\* The peer's end of stream between requests: handle_connection returns Ok.
PeerEOF ==
    /\ srv = "handling" /\ stream = <<>>
    /\ srv' = "listening"
    /\ slog' = [slog EXCEPT ![conn].ended = "eof"]
    /\ UNCHANGED <<engine_vars, last, hist, incoming, stream, out, lib_vars>>

ServerNext == ServerStart \/ Connect \/ Accept \/ HandleRequest \/ DecodeError \/ PeerEOF

ServerSpec == Init /\ [][ServerNext]_vars

\* ------------------------------------------------------------------ claims
ActiveEmpty == segs[current_index] = <<>> /\ wbuf = <<>>
CompactRuns == opened /\ umcompacted_bytes > COMPACTION_THRESHOLD
MutationOk == last.op \in {"set", "remove"} /\ last.res.ok

\* C1: after any sequence of set and remove calls, with compaction possibly
\* run in between, get(k) returns Some(v) iff the last set/remove on k was
\* set(k, v), and None otherwise.
C1_GetReturnsLastWrite == opened => \A k \in Keys : get(k) = Ok(hist.kv[k])

\* C2: for every key, get(k) right after a compaction run returns what it
\* returned right before it, whatever the active segment already holds.
C2_CompactionPreservesGet ==
    [][(CompactRuns /\ last'.op = "compact") => AllGets' = AllGets]_vars

\* C3: after a sequence of set/remove calls, a close and an open of the same
\* directory, get(k) returns for every key what it returned before the close.
C3_DurableAcrossReopen ==
    (opened /\ last.op = "open" /\ hist.quiet_close) => AllGets = hist.gets_at_close

C3_Witness ==
    /\ opened /\ last.op = "open" /\ hist.quiet_close
    /\ Len(hist.assigned) >= 2
    /\ \E k \in Keys : get(k).val \in Values
    /\ \E id \in DOMAIN segs : \E i \in 1..Len(segs[id]) : segs[id][i].op = "Remove"

\* C4: remove(k) of a key with no index entry fails with KeyNotFound, leaves
\* every segment file and the write buffer as they were, and leaves the index
\* and the uncompacted-bytes counter unchanged.
C4_RemoveAbsentKey ==
    [][(opened /\ last'.op = "remove" /\ last'.key \notin DOMAIN map)
         => /\ last'.res = Err("KeyNotFound")
            /\ segs' = segs /\ wbuf' = wbuf
            /\ map' = map /\ umcompacted_bytes' = umcompacted_bytes]_vars

C4_Witness ==
    /\ opened /\ last.op = "remove" /\ last.res = Err("KeyNotFound")
    /\ hist.kv[last.key] = None /\ NumRecords > 0

\* C5: whenever set or remove returns Ok, the uncompacted-bytes counter is
\* not above the threshold.
C5_OkLeavesCounterBelowThreshold ==
    (opened /\ MutationOk) => umcompacted_bytes <= COMPACTION_THRESHOLD

\* C6: a set or remove that displaces an index entry adds that entry's length
\* to the uncompacted-bytes counter; a set of a key with no entry adds nothing.
C6_StaleBytesCounted ==
    [][(opened /\ last'.op \in {"set", "remove"} /\ last'.res.ok)
         => umcompacted_bytes' = umcompacted_bytes + DisplacedLen(last'.key)]_vars

\* C7: once the overwrites of a session have displaced more than the
\* threshold of record bytes, a compaction has run.
C7_OverwritesBringCompaction ==
    (opened /\ hist.overwritten > COMPACTION_THRESHOLD) => hist.compacted

\* C8: when set or remove returns Ok, no record is held in the write buffer.
C8_FlushedOnReturn == (opened /\ MutationOk) => wbuf = <<>>

\* C9: every open makes max(existing ids) + 1 (1 for an empty directory) the
\* active segment, and the ids opens assign are strictly increasing.
C9_SegmentIdsIncrease ==
    /\ \A i \in 1..(Len(hist.assigned) - 1) : hist.assigned[i] < hist.assigned[i + 1]
    /\ opened => /\ current_index = hist.assigned[Len(hist.assigned)]
                 /\ current_index =
                      IF hist.dir_at_open = {} THEN 1 ELSE Max(hist.dir_at_open) + 1

C9_Witness ==
    /\ opened /\ last.op = "open"
    /\ \E i \in 1..Len(hist.assigned) : hist.assigned[i] \notin DOMAIN segs

\* The requests of a connection up to its first undecodable one.
RECURSIVE Decodable(_)
Decodable(reqs) ==
    IF reqs = <<>> \/ Head(reqs).kind = "Garbage" THEN <<>>
    ELSE <<Head(reqs)>> \o Decodable(Tail(reqs))

\* C10: on each connection there is exactly one response per decoded request,
\* in request order and of the request's kind; it is Err(message) exactly when
\* the engine failed; and a connection ends only at the peer's end of stream or
\* at an undecodable request, so an engine error stops nothing.
C10_OneResponsePerRequest ==
    \A c \in 1..Len(slog) :
        LET d == slog[c].decoded
            todo == IF c = conn /\ srv = "handling" THEN stream ELSE <<>>
        IN /\ Len(out[c]) = Len(d)
           /\ \A i \in 1..Len(d) :
                /\ d[i].req = slog[c].sent[i]
                /\ out[c][i].kind = d[i].req.kind \o "Response"
                /\ out[c][i].ok = d[i].res.ok
                /\ ~d[i].res.ok => out[c][i].val = Display(d[i].res.val)
           /\ slog[c].ended = "no" => [i \in 1..Len(d) |-> d[i].req] \o todo = slog[c].sent
           /\ slog[c].ended # "no" => Len(d) = Len(Decodable(slog[c].sent))
           /\ slog[c].ended \in {"no", "eof", "decode"}

C10_Witness ==
    \E c \in 1..Len(slog) :
        /\ slog[c].ended = "eof"
        /\ Len(out[c]) >= 2
        /\ ~out[c][1].ok /\ out[c][1].kind = "RemoveResponse"
        /\ out[c][2].ok

\* C11: a Get of an absent key is answered GetResponse::Ok(null), a Get of a
\* present key Ok(value), and a Remove of an absent key
\* Err("Key not found error"); Set and a Remove of a present key are answered Ok.
C11_ResponseCarriesOutcome ==
    \A c \in 1..Len(slog) : \A i \in 1..Len(slog[c].decoded) :
        LET d == slog[c].decoded[i]
            r == out[c][i]
        IN /\ d.req.kind = "Get" => r = Response("GetResponse", TRUE, d.held)
           /\ d.req.kind = "Set" => r = Response("SetResponse", TRUE, Unit)
           /\ (d.req.kind = "Remove" /\ d.held = None)
                 => r = Response("RemoveResponse", FALSE, "Key not found error")
           /\ (d.req.kind = "Remove" /\ d.held # None)
                 => r = Response("RemoveResponse", TRUE, Unit)

C11_Witness ==
    /\ \E c \in 1..Len(out) : \E i \in 1..Len(out[c]) :
          out[c][i] = Response("RemoveResponse", FALSE, "Key not found error")
    /\ \E c \in 1..Len(out) : \E i \in 1..Len(out[c]) :
          out[c][i].kind = "GetResponse" /\ out[c][i].val \in Values

\* The requests connection c has had applied to the engine, in order.
AppliedBy(c) ==
    LET mine == SelectSeq(hist.applied, LAMBDA e : e.conn = c)
    IN [i \in 1..Len(mine) |-> mine[i].req]

\* C12: an undecodable request ends its connection: nothing is written for it
\* or after it, no request after it reaches the engine, and the server is back
\* accepting connections.
C12_DecodeErrorEndsConnection ==
    \A c \in 1..Len(slog) :
        LET good == Decodable(slog[c].sent)
        IN /\ IsPrefix(AppliedBy(c), good)
           /\ Len(out[c]) <= Len(good)
           /\ slog[c].ended = "decode"
                 => /\ Len(good) < Len(slog[c].sent)
                    /\ AppliedBy(c) = good
                    /\ Len(out[c]) = Len(good)
                    /\ srv \in {"listening", "handling"}
                    /\ c = conn => srv = "listening"

C12_Witness ==
    \E c \in 1..Len(slog) :
        /\ slog[c].ended = "decode"
        /\ Len(slog[c].sent) > Len(Decodable(slog[c].sent)) + 1
        /\ \E c2 \in (c + 1)..Len(out) : Len(out[c2]) >= 1

\* C13: connections are served one at a time, in the order they are accepted:
\* the engine sees the requests of one connection only after every request of
\* the connections accepted before it has been handled.
C13_ConnectionsServedInTurn ==
    /\ \A i \in 1..(Len(hist.applied) - 1) : hist.applied[i].conn <= hist.applied[i + 1].conn
    /\ \A c \in 1..(Len(slog) - 1) :
          /\ slog[c].ended # "no"
          /\ AppliedBy(c) = Decodable(slog[c].sent)
    /\ \A i \in 1..Len(hist.applied) : hist.applied[i].conn \in 1..Len(slog)

C13_Witness ==
    /\ Len(slog) >= 2
    /\ AppliedBy(1) # <<>> /\ AppliedBy(2) # <<>>
    /\ \E i \in 1..Len(hist.applied) : hist.applied[i].conn = 1 /\ hist.applied[i].req.kind = "Set"

\* The records of the directory, each as <<segment id, index in the file>>.
Places == UNION {{<<id, i>> : i \in 1..Len(segs[id])} : id \in DOMAIN segs}
RecordAt(p) == segs[p[1]][p[2]]
ExtentOf(p) == CommandMetadata(p[1], Offset(segs[p[1]], p[2]), RecLen(RecordAt(p)))
\* p is replayed after q.
Later(p, q) == p[1] > q[1] \/ (p[1] = q[1] /\ p[2] > q[2])

RECURSIVE PlacesLen(_)
PlacesLen(ps) ==
    IF ps = {} THEN 0
    ELSE LET p == CHOOSE x \in ps : TRUE
         IN RecLen(RecordAt(p)) + PlacesLen(ps \ {p})

\* Invariant I1 for key k: its entry is the extent of a Set(k, _) record, and
\* no record for k is replayed after it (the buffered records come last).
LiveRead(k) ==
    /\ \E p \in Places :
          /\ ExtentOf(p) = map[k]
          /\ RecordAt(p).op = "Set" /\ RecordAt(p).key = k
          /\ \A q \in Places : Later(q, p) => RecordAt(q).key # k
    /\ \A j \in 1..Len(wbuf) : wbuf[j].key # k

\* C14: invariant I1 (live-read) holds in every reachable state, also after
\* compaction.
C14_LiveRead == opened => \A k \in DOMAIN map : LiveRead(k)

\* C15: every segment an index entry refers to has a reader and its file is
\* in the directory.
C15_ReaderCoverage ==
    opened => \A k \in DOMAIN map :
                 map[k].file_index \in readers /\ map[k].file_index \in DOMAIN segs

C15_Witness ==
    /\ opened /\ hist.compacted /\ DOMAIN map = Keys
    /\ \E i \in 1..Len(hist.assigned) : hist.assigned[i] \notin DOMAIN segs

\* C16: a compaction writes the live records into a fresh segment
\* current_active + 1 and makes a further, empty segment current_active + 2
\* the active one.
C16_CompactionClaimsTwoIds ==
    [][(CompactRuns /\ last'.op = "compact")
         => /\ current_index' = current_index + 2
            /\ {current_index + 1, current_index + 2} \subseteq DOMAIN segs'
            /\ segs'[current_index + 2] = <<>>
            /\ \A k \in DOMAIN map' : map'[k].file_index = current_index + 1]_vars

\* C17: when a compaction has completed, the directory and the reader table
\* hold no segment below the one the live records were written to, and every
\* index entry refers to that segment.
C17_CompactionLeavesNoOlderSegment ==
    [][(CompactRuns /\ last'.op = "compact" /\ last'.res.ok)
         => /\ \A id \in DOMAIN segs' \cup readers' : id >= current_index'
            /\ \A k \in DOMAIN map' : map'[k].file_index = current_index']_vars

C17_Witness ==
    /\ opened /\ last.op = "compact" /\ hist.compacted /\ umcompacted_bytes = 0
    /\ DOMAIN map # {} /\ segs[current_index] # <<>>
    /\ \E i \in 1..Len(hist.assigned) : hist.assigned[i] \notin DOMAIN segs

RECURSIVE TotalSize(_)
TotalSize(fs) ==
    IF DOMAIN fs = {} THEN 0
    ELSE LET id == CHOOSE x \in DOMAIN fs : TRUE
         IN SumLen(fs[id]) + TotalSize([x \in DOMAIN fs \ {id} |-> fs[x]])

RECURSIVE LiveSize(_)
LiveSize(m) ==
    IF DOMAIN m = {} THEN 0
    ELSE LET k == CHOOSE x \in DOMAIN m : TRUE
         IN m[k].length + LiveSize([x \in DOMAIN m \ {k} |-> m[x]])

\* C18: when a compaction has completed, the segment files together are no
\* larger than the live records (an empty active segment adds 0 bytes).
C18_CompactionReclaimsSpace ==
    [][(CompactRuns /\ last'.op = "compact") => TotalSize(segs') <= LiveSize(map')]_vars

\* C19: invariant I3: a file only ever grows at its end, only the active
\* segment's file changes, and only compaction removes files, which are
\* segments older than the active one.
C19_ActiveOnlyGrowth ==
    [][/\ \A id \in DOMAIN segs :
             IF id \in DOMAIN segs'
             THEN /\ IsPrefix(segs[id], segs'[id])
                  /\ id # current_index => segs'[id] = segs[id]
             ELSE last'.op = "compact" /\ id < current_index
       /\ last'.op \in {"set", "get", "remove"} => DOMAIN segs' = DOMAIN segs]_vars

C19_Witness ==
    /\ opened /\ last.op = "set" /\ Len(segs[current_index]) >= 2
    /\ \E id \in DOMAIN segs : id < current_index /\ segs[id] # <<>>

\* The Set records of the directory that no index entry refers to.
DisplacedPlaces ==
    {p \in Places : /\ RecordAt(p).op = "Set"
                    /\ ~(RecordAt(p).key \in DOMAIN map /\ map[RecordAt(p).key] = ExtentOf(p))}

\* C20: after open, the uncompacted-bytes counter is the sum of the lengths of
\* the entries the replay displaced, the segments being replayed in ascending
\* id order: the Set records superseded by a later Set or Remove of their key.
C20_ReplayAccounting ==
    (opened /\ last.op = "open")
        => /\ umcompacted_bytes = PlacesLen(DisplacedPlaces)
           /\ \A k \in DOMAIN map : LiveRead(k)

C20_Witness ==
    /\ opened /\ last.op = "open" /\ umcompacted_bytes > 0
    /\ \E p \in Places : RecordAt(p).op = "Remove"
    /\ Cardinality(DisplacedPlaces) >= 2

\* C21: an open, a close with no set/remove (and no compaction) in between and
\* another open give the same index: the same keys with the same (segment id,
\* offset, length) extents, although each open added a new empty active segment.
C21_ReplayIdempotent ==
    (opened /\ last.op = "open" /\ hist.idle_close)
        => /\ map = hist.map_at_close
           /\ segs[current_index] = <<>>
           /\ hist.assigned[Len(hist.assigned) - 1] \in DOMAIN segs
           /\ segs[hist.assigned[Len(hist.assigned) - 1]] = <<>>

C21_Witness ==
    /\ opened /\ last.op = "open" /\ hist.idle_close
    /\ Len(hist.assigned) >= 3
    /\ DOMAIN map # {} /\ umcompacted_bytes > 0

\* The entry of k is an extent of its segment's file that decodes to a Set
\* record of k.
ReadableSet(k) ==
    /\ map[k].file_index \in DOMAIN segs
    /\ LET c == read_command(segs[map[k].file_index], map[k])
       IN c.ok /\ c.val.op = "Set" /\ c.val.key = k

\* C22: a compaction that fails with an I/O error (while copying a live
\* record, flushing, or unlinking a stale segment) returns the error and leaves
\* every index entry pointing at a readable extent that holds a Set record of
\* its key (I1), in a segment that has a reader (I5).
C22_FailedCompactionConsistent ==
    (opened /\ last.op = "compact" /\ ~last.res.ok)
        => /\ last.res = IoError
           /\ \A k \in DOMAIN map : map[k].file_index \in readers /\ ReadableSet(k)

\* A replay of the log, once the buffered records are written out, builds
\* the index the engine holds.
ReplayAgrees ==
    LET dir == Flushed(segs, current_index, wbuf)
        r == load_files(dir, fetch_file_indexes(dir), 1, EmptyMap, 0)
    IN r.ok /\ r.map = map

\* C23: a set or remove whose append fails with an I/O or serialization error
\* returns the error and leaves the index exactly as it was, so that an index
\* that agreed with a replay of the log still agrees with it.
C23_FailedAppendKeepsIndex ==
    [][(opened /\ last'.op \in {"set", "remove"} /\ last'.res \in {IoError, SerdeError})
         => /\ map' = map
            /\ ReplayAgrees => ReplayAgrees']_vars

\* C24: the two engines are observationally equivalent: over every sequence of
\* open, set, get, remove and reopen, each call returns from the index-and-
\* segments engine (kv.rs) what it returns from the single-log engine (lib.rs),
\* and so would a get of any key.
C24_EnginesAgree ==
    /\ lib_last = last
    /\ opened = lib_store.open
    /\ opened => \A k \in Keys : get(k) = lib_get(k)

C24_Witness ==
    /\ opened /\ lib_last.op = "get" /\ lib_last.res.val \in Values
    /\ last.op = "get" /\ last.res.val \in Values
    /\ Len(hist.assigned) >= 2
    /\ \E i \in 1..Len(lib_dir[LogFile]) : lib_dir[LogFile][i].op = "Remove"
    /\ \E k \in Keys : get(k) = Ok(None)

\* What separates the failing runs of C1 and C2 from the others.
\* The index is right in every session that has not compacted.
GetRightBeforeCompaction == (opened /\ ~hist.compacted) => \A k \in Keys : get(k) = Ok(hist.kv[k])
\* A compaction that starts on an empty active segment keeps every get.
CompactionFromEmptyKeepsGet ==
    [][(CompactRuns /\ ActiveEmpty /\ last'.op = "compact") => AllGets' = AllGets]_vars

====
